---- MODULE Spec2Model ----
(***************************************************************************)
(* Event batching / summarization scheduler of ai-notify.                  *)
(*                                                                         *)
(* The Lambda handler (src/index.mjs) runs as independent invocations that *)
(* share only the team-events table (src/dynamoUtils.mjs).  A webhook      *)
(* invocation stores one event and calls processProjectEvents with         *)
(* isScheduledCheck = false; a scheduled invocation walks projectNames and *)
(* calls processProjectEvents with isScheduledCheck = true for every       *)
(* project that has a Slack channel.  Every await of the code is one       *)
(* action; the outcome of every external call (DynamoDB, OpenAI, Slack)    *)
(* is chosen by the environment.                                           *)
(***************************************************************************)
EXTENDS Integers, Sequences, FiniteSets, TLC

\* ------------------------------------------------------------------ bounds
\* concurrent Lambda invocations

\* storeEvent calls in one behaviour
MaxEvents == 2
\* clock advances in one behaviour
MaxTicks == 1
\* calls of the chunk loop that are followed when the loop cannot end
MaxLoopCalls == 6
\* longest event list, short of the count threshold, given to
\* shouldSendSummary with every arrangement of event times
MaxCheckLen == 3
\* waits of maxAgeSeconds in one behaviour
MaxWaits == 1
\* largest batch that is chunked with every small chunk size
MaxBatch == 5
\* addEventToBatch calls in one behaviour
MaxAddCalls == 7
\* a countThreshold option below the default
SmallThreshold == 2

\* one clock advance: ten minutes, in milliseconds
TickMs == 10 * 60 * 1000

Inv == {1, 2}

\* ------------------------------------------------------- program constants
\* index.mjs:120, the chunk size when MAX_EVENTS_PER_CHUNK is not set
DEFAULT_MAX_EVENTS_PER_CHUNK == 15
\* dynamoUtils.mjs:123
BATCH_SIZE == 25
\* eventSummary.mjs:243
countThreshold == 20
\* eventSummary.mjs:244
maxAgeSeconds == 7200
\* dynamoUtils.mjs:45, ten minutes in seconds
TTL_SECONDS == 10 * 60

\* index.mjs:77
projectNames == <<"redline", "lymphapress", "silo-down", "pasley-hill">>

\* index.mjs:68-75, Object.keys(slackChannels) in insertion order
slackChannelKeys ==
  <<"rl-wholesale-redline", "lymphapress-REVO", "bottest", "pasley hill",
    "silo-down", "silo-down-marketing">>

\* the characters of the strings that the channel lookup compares
Chars(s) ==
  CASE s = "redline" -> <<"r","e","d","l","i","n","e">>
    [] s = "lymphapress" -> <<"l","y","m","p","h","a","p","r","e","s","s">>
    [] s = "silo-down" -> <<"s","i","l","o","-","d","o","w","n">>
    [] s = "pasley-hill" -> <<"p","a","s","l","e","y","-","h","i","l","l">>
    [] s = "rl-wholesale-redline" ->
         <<"r","l","-","w","h","o","l","e","s","a","l","e","-",
           "r","e","d","l","i","n","e">>
    [] s = "lymphapress-REVO" ->
         <<"l","y","m","p","h","a","p","r","e","s","s","-","R","E","V","O">>
    [] s = "bottest" -> <<"b","o","t","t","e","s","t">>
    [] s = "pasley hill" -> <<"p","a","s","l","e","y"," ","h","i","l","l">>
    [] s = "silo-down-marketing" ->
         <<"s","i","l","o","-","d","o","w","n","-",
           "m","a","r","k","e","t","i","n","g">>
    [] s = "lympha" -> <<"l","y","m","p","h","a">>
    [] s = "silo" -> <<"s","i","l","o">>
    [] s = "pasley" -> <<"p","a","s","l","e","y">>

\* String.prototype.includes: needle occurs in hay as a contiguous run
Includes(hay, needle) ==
  LET h == Chars(hay)
      n == Chars(needle)
  IN  \E k \in 0..(Len(h) - Len(n)) :
        \A j \in 1..Len(n) : h[k + j] = n[j]

\* the positions in Object.keys(slackChannels)
KeyIndexes == 1..Len(slackChannelKeys)

\* Array.prototype.find over the channel keys: index of the first key among
\* those that satisfy the predicate (hits), 0 when there is none
FindKey(hits) ==
  IF hits = {} THEN 0
  ELSE CHOOSE k \in hits : \A m \in hits : k <= m

\* index.mjs:269-279, exact match, then key.includes(project), then
\* project.includes(key); "" when no channel is found
ChannelKeyFor(project) ==
  LET exact == FindKey({k \in KeyIndexes : slackChannelKeys[k] = project})
      partial == FindKey({k \in KeyIndexes :
                           Includes(slackChannelKeys[k], project)})
      reverse == FindKey({k \in KeyIndexes :
                           Includes(project, slackChannelKeys[k])})
  IN  IF exact # 0 THEN slackChannelKeys[exact]
      ELSE IF partial # 0 THEN slackChannelKeys[partial]
      ELSE IF reverse # 0 THEN slackChannelKeys[reverse]
      ELSE ""

\* ------------------------------------------------------------------ inputs
\* project names that determineProjectName yields for the stored events
EventProjects == {"redline"}
\* process.env.MAX_EVENTS_PER_CHUNK of the deployment, as the characters of
\* the string; <<>> when the variable is not set (or empty)
EnvChunkValues == {<<>>, <<"1">>}
\* what generateEventSummary can do for a chunk: a message with a text, a
\* message whose text is missing or empty, or an exception
SummarizerOutcomes == {"text", "notext", "throw"}
\* eventSummary.mjs:13-26: for an empty list generateEventSummary returns a
\* fixed message with a text and makes no call that can fail
SummarizerOutcomesFor(events) ==
  IF Len(events) = 0 THEN {"text"} ELSE SummarizerOutcomes
CallOutcomes == {"ok", "throw"}

VARIABLES
  now, store, nextId, envMaxChunk,
  pc, kind, projIdx, projectName, isScheduledCheck, currentTime,
  allEvents, getSuccess, loopI, partialSummaryTexts, chunkErrors,
  eventsProcessedInChunks, finalSummaryMessage, slackResponse,
  deleteI, deleteRequests, batchResults, result, calls,
  victims, chunks, summaryCheck,
  roundTrip, batchTable, adder, addCalls, results

storeVars == <<now, store, nextId, envMaxChunk>>
\* victims: the ids of the items that the deletes of a call removed; chunks:
\* the chunks that the loop of a call handed to generateEventSummary, each
\* with what the call did
ghostVars == <<victims, chunks>>
\* the arguments and the return value of a shouldSendSummary call
\* roundTrip: a get, delete, get sequence on the team-events table;
\* batchTable, adder, addCalls: the item of a channel in the event-batch
\* table, the addEventToBatch calls in progress and the number of calls made
libVars == <<roundTrip, batchTable, adder, addCalls>>
checkVars == <<summaryCheck, libVars>>
flushVars ==
  <<allEvents, getSuccess, loopI, partialSummaryTexts, chunkErrors,
    eventsProcessedInChunks, finalSummaryMessage, slackResponse,
    deleteI, deleteRequests, batchResults, result, calls>>
\* results: index.mjs:262, the result recorded for each project of a sweep
ctlVars ==
  <<kind, projIdx, projectName, isScheduledCheck, currentTime, results>>
invVars == <<pc, ctlVars>>
vars == <<storeVars, invVars, flushVars, ghostVars, checkVars>>

\* ----------------------------------------------------------------- helpers
Min(a, b) == IF a < b THEN a ELSE b

Range(s) == {s[k] : k \in 1..Len(s)}

\* Array.prototype.slice(from, to) with 0-based, end-exclusive indices
Slice(s, from, to) ==
  IF from >= Min(to, Len(s)) THEN <<>>
  ELSE SubSeq(s, from + 1, Min(to, Len(s)))

\* the primary key of a team-events item (dynamoUtils.mjs:50-51)
KeyOf(item) == [projectName |-> item.projectName, eventTime |-> item.eventTime]

\* Math.floor(ms / 1000)
Seconds(ms) == ms \div 1000

NoResult == [success |-> FALSE, action |-> "none", eventCount |-> 0,
             partialCount |-> 0, chunkErrors |-> 0]
NoMessage == [from |-> "none", texts |-> <<>>, events |-> {}]
\* external calls made by the current processProjectEvents call, and which
\* of the final-summary calls threw
NoCalls == [summarizer |-> 0, consolidator |-> 0, slack |-> 0, threw |-> "none"]
\* no shouldSendSummary call has been made
NoCheck == [defined |-> FALSE, events |-> <<>>, countThreshold |-> 0,
            maxAgeSeconds |-> 0, isScheduledCheck |-> FALSE,
            clock |-> 0, done |-> FALSE, returned |-> FALSE]

Digits == <<"0", "1", "2", "3", "4", "5", "6", "7", "8", "9">>

DigitValue(c) == (CHOOSE k \in 1..10 : Digits[k] = c) - 1

\* parseInt on a string of decimal digits with an optional minus sign
RECURSIVE ParseDigits(_, _)
ParseDigits(chars, acc) ==
  IF chars = <<>> \/ Head(chars) \notin Range(Digits) THEN acc
  ELSE ParseDigits(Tail(chars), 10 * acc + DigitValue(Head(chars)))

ParseInt(chars) ==
  IF chars # <<>> /\ Head(chars) = "-"
  THEN 0 - ParseDigits(Tail(chars), 0)
  ELSE ParseDigits(chars, 0)

\* index.mjs:120
MAX_EVENTS_PER_CHUNK ==
  IF envMaxChunk = <<>> THEN DEFAULT_MAX_EVENTS_PER_CHUNK
  ELSE ParseInt(envMaxChunk)

\* the items of a query, newest first (ScanIndexForward: false)
RECURSIVE Descending(_)
Descending(items) ==
  IF items = {} THEN <<>>
  ELSE LET newest == CHOOSE x \in items :
                       \A y \in items : y.eventTime <= x.eventTime
       IN  <<newest>> \o Descending(items \ {newest})

\* variant: the query returns the oldest item first
QueryItems_OldestFirst(project) ==
  LET newestFirst == Descending({x \in store : x.projectName = project})
  IN  [k \in 1..Len(newestFirst) |->
         newestFirst[Len(newestFirst) + 1 - k]]

\* dynamoUtils.mjs:85-99, the Items of the query on the partition key
QueryItems(project) ==
  Descending({x \in store : x.projectName = project})

\* variant: the slice includes the event at its end index
ChunkAt_EndInclusive(events, from) ==
  Slice(events, from, from + MAX_EVENTS_PER_CHUNK + 1)

\* variant: the slice runs to the end of the list
ChunkAt_Remainder(events, from) == Slice(events, from, Len(events))

\* index.mjs:134, the events of the chunk that starts at index from
ChunkAt(events, from) == Slice(events, from, from + MAX_EVENTS_PER_CHUNK)

\* index.mjs:135
ChunkNumber(from) == (from \div MAX_EVENTS_PER_CHUNK) + 1

\* index.mjs:136, Math.ceil(length / MAX_EVENTS_PER_CHUNK)
TotalChunks(events) ==
  (Len(events) + MAX_EVENTS_PER_CHUNK - 1) \div MAX_EVENTS_PER_CHUNK

IdsOf(events) == {e.id : e \in Range(events)}

\* the concatenation of a sequence of sequences
RECURSIVE Flatten(_)
Flatten(seqs) ==
  IF seqs = <<>> THEN <<>> ELSE Head(seqs) \o Flatten(Tail(seqs))

\* the callers of addEventToBatch
Adders == {1, 2}

\* no get, delete, get sequence has started
NoRoundTrip ==
  [pc |-> "idle", events |-> <<>>, getSuccess |-> FALSE, i |-> 0,
   results |-> <<>>, verify |-> <<>>, verifySuccess |-> FALSE]

\* no addEventToBatch call is in progress
NoFields ==
  [workflow_run |-> "absent", workflow_job |-> "absent",
   check_run |-> "absent", action |-> <<>>]

NoEvent == [hasBody |-> FALSE, body |-> NoFields, own |-> NoFields]

NoAdd ==
  [pc |-> "idle", source |-> "", event |-> NoEvent, ev |-> 0,
   existingBatch |-> <<>>, sends |-> 0, batchComplete |-> FALSE,
   shouldSendImmediately |-> FALSE, events |-> <<>>]

\* the event-batch table has no item for the channel
NoItem == [defined |-> FALSE, events |-> <<>>]

IdleLib ==
  /\ roundTrip = NoRoundTrip
  /\ batchTable = NoItem
  /\ adder = [a \in Adders |-> NoAdd]
  /\ addCalls = 0

\* ------------------------------------------------------------------- Init
IdleLocals ==
  /\ pc = [i \in Inv |-> "idle"]
  /\ kind = [i \in Inv |-> "none"]
  /\ projIdx = [i \in Inv |-> 0]
  /\ results = [i \in Inv |-> <<>>]
  /\ projectName = [i \in Inv |-> ""]
  /\ isScheduledCheck = [i \in Inv |-> FALSE]
  /\ currentTime = [i \in Inv |-> 0]
  /\ allEvents = [i \in Inv |-> <<>>]
  /\ getSuccess = [i \in Inv |-> FALSE]
  /\ loopI = [i \in Inv |-> 0]
  /\ partialSummaryTexts = [i \in Inv |-> <<>>]
  /\ chunkErrors = [i \in Inv |-> 0]
  /\ eventsProcessedInChunks = [i \in Inv |-> 0]
  /\ finalSummaryMessage = [i \in Inv |-> NoMessage]
  /\ slackResponse = [i \in Inv |-> "none"]
  /\ deleteI = [i \in Inv |-> 0]
  /\ deleteRequests = [i \in Inv |-> <<>>]
  /\ batchResults = [i \in Inv |-> <<>>]
  /\ result = [i \in Inv |-> NoResult]
  /\ calls = [i \in Inv |-> NoCalls]
  /\ victims = [i \in Inv |-> {}]
  /\ chunks = [i \in Inv |-> <<>>]

Init ==
  /\ now = TickMs
  /\ store = {}
  /\ nextId = 1
  /\ envMaxChunk \in EnvChunkValues
  /\ IdleLocals
  /\ summaryCheck = NoCheck
  /\ IdleLib

\* the per-call locals of processProjectEvents, cleared between calls
ResetFlush(i) ==
  /\ allEvents' = [allEvents EXCEPT ![i] = <<>>]
  /\ getSuccess' = [getSuccess EXCEPT ![i] = FALSE]
  /\ loopI' = [loopI EXCEPT ![i] = 0]
  /\ partialSummaryTexts' = [partialSummaryTexts EXCEPT ![i] = <<>>]
  /\ chunkErrors' = [chunkErrors EXCEPT ![i] = 0]
  /\ eventsProcessedInChunks' = [eventsProcessedInChunks EXCEPT ![i] = 0]
  /\ finalSummaryMessage' = [finalSummaryMessage EXCEPT ![i] = NoMessage]
  /\ slackResponse' = [slackResponse EXCEPT ![i] = "none"]
  /\ deleteI' = [deleteI EXCEPT ![i] = 0]
  /\ deleteRequests' = [deleteRequests EXCEPT ![i] = <<>>]
  /\ batchResults' = [batchResults EXCEPT ![i] = <<>>]
  /\ result' = [result EXCEPT ![i] = NoResult]
  /\ calls' = [calls EXCEPT ![i] = NoCalls]
  /\ victims' = [victims EXCEPT ![i] = {}]
  /\ chunks' = [chunks EXCEPT ![i] = <<>>]

\* ------------------------------------------------------------ environment
\* time passes
Tick ==
  /\ now + TickMs <= TickMs * (1 + MaxTicks)
  /\ now' = now + TickMs
  /\ UNCHANGED <<store, nextId, envMaxChunk, invVars, flushVars, ghostVars, checkVars>>

\* DynamoDB removes an item whose ttl attribute has passed
ExpireItem ==
  /\ \E x \in store :
       /\ Seconds(now) >= x.ttl
       /\ store' = store \ {x}
  /\ UNCHANGED <<now, nextId, envMaxChunk, invVars, flushVars, ghostVars, checkVars>>

\* ---------------------------------------------------------- webhook path
\* index.mjs:308-335 and dynamoUtils.mjs:42: a webhook arrives,
\* determineProjectName yields p, and storeEvent reads the clock
\* (const currentTime = Date.now()) before it sends the PutCommand
StartWebhook(i) ==
  /\ pc[i] = "idle"
  /\ nextId <= MaxEvents
  /\ \E p \in EventProjects :
       projectName' = [projectName EXCEPT ![i] = p]
  /\ kind' = [kind EXCEPT ![i] = "webhook"]
  /\ isScheduledCheck' = [isScheduledCheck EXCEPT ![i] = FALSE]
  /\ currentTime' = [currentTime EXCEPT ![i] = now]
  /\ pc' = [pc EXCEPT ![i] = "store_put"]
  /\ UNCHANGED <<storeVars, projIdx, results, flushVars, ghostVars, checkVars>>

\* dynamoUtils.mjs:45-55, the item that storeEvent puts
NewItem(i) ==
  [projectName |-> projectName[i],
   eventTime |-> currentTime[i],
   id |-> nextId,
   ttl |-> Seconds(currentTime[i]) + TTL_SECONDS]

\* PutItem replaces the item that has the same primary key
PutInto(items, item) ==
  {x \in items : KeyOf(x) # KeyOf(item)} \cup {item}

\* dynamoUtils.mjs:57-71, the PutCommand; a failure is swallowed and the
\* handler goes on to processProjectEvents (index.mjs:339)
StoreEventPut(i) ==
  /\ pc[i] = "store_put"
  /\ \E outcome \in CallOutcomes :
       IF outcome = "ok"
       THEN /\ store' = PutInto(store, NewItem(i))
            /\ nextId' = nextId + 1
       ELSE UNCHANGED <<store, nextId>>
  /\ pc' = [pc EXCEPT ![i] = "get_all"]
  /\ UNCHANGED <<now, envMaxChunk, kind, projIdx, projectName, results,
                 isScheduledCheck, currentTime, flushVars, ghostVars, checkVars>>

\* --------------------------------------------------------- scheduled path
\* index.mjs:265-284: the position in projectNames of the first project
\* after position idx that has a channel; past the end when there is none
RECURSIVE NextProject(_)
NextProject(idx) ==
  IF idx + 1 > Len(projectNames) THEN idx + 1
  ELSE IF ChannelKeyFor(projectNames[idx + 1]) = "" THEN NextProject(idx + 1)
  ELSE idx + 1

\* the loop of index.mjs:265-302 moves on from position idx: it calls
\* processProjectEvents for the next project that has a channel
\* (index.mjs:290-295) or ends the invocation (index.mjs:304-305)
SweepFrom(i, idx) ==
  IF NextProject(idx) > Len(projectNames)
  THEN /\ pc' = [pc EXCEPT ![i] = "idle"]
       /\ kind' = [kind EXCEPT ![i] = "none"]
       /\ projIdx' = [projIdx EXCEPT ![i] = 0]
       /\ projectName' = [projectName EXCEPT ![i] = ""]
       /\ isScheduledCheck' = [isScheduledCheck EXCEPT ![i] = FALSE]
  ELSE /\ pc' = [pc EXCEPT ![i] = "get_all"]
       /\ kind' = [kind EXCEPT ![i] = "sweep"]
       /\ projIdx' = [projIdx EXCEPT ![i] = NextProject(idx)]
       /\ projectName' =
            [projectName EXCEPT ![i] = projectNames[NextProject(idx)]]
       /\ isScheduledCheck' = [isScheduledCheck EXCEPT ![i] = TRUE]

\* index.mjs:258-295: a scheduled event starts the walk over projectNames
StartScheduled(i) ==
  /\ pc[i] = "idle"
  /\ SweepFrom(i, 0)
  /\ UNCHANGED <<storeVars, currentTime, results, flushVars, ghostVars,
                 checkVars>>

\* ------------------------------------------------------ shouldSendSummary
\* variant: the first event of the list as given, without the sort
OldestEvent_First(events) == events[1]

\* eventSummary.mjs:261-264, the first event of the list sorted by eventTime
OldestEvent(events) ==
  CHOOSE e \in Range(events) : \A f \in Range(events) : e.eventTime <= f.eventTime

\* variant: the count threshold only counts on a scheduled check
shouldSendSummary_CountOnScheduled(events, options, clock) ==
  /\ Len(events) # 0
  /\ options.isScheduledCheck
  /\ \/ Len(events) >= options.countThreshold
     \/ Seconds(clock) - OldestEvent(events).eventTime >= options.maxAgeSeconds

\* variant: the age of the oldest event counts in every context
shouldSendSummary_AgeInEveryContext(events, options, clock) ==
  /\ Len(events) # 0
  /\ \/ Len(events) >= options.countThreshold
     \/ Seconds(clock) - OldestEvent(events).eventTime >= options.maxAgeSeconds

\* eventSummary.mjs:241-281; clock is Date.now()
shouldSendSummary(events, options, clock) ==
  IF Len(events) = 0 THEN FALSE
  ELSE IF Len(events) >= options.countThreshold THEN TRUE
  ELSE IF options.isScheduledCheck
          /\ Seconds(clock) - OldestEvent(events).eventTime
               >= options.maxAgeSeconds
  THEN TRUE
  ELSE FALSE

\* eventSummary.mjs:249, !events: a call without an event list (null or
\* undefined) returns false before the length is read
shouldSendSummaryOf(check, clock) ==
  IF ~check.defined THEN FALSE
  ELSE shouldSendSummary(check.events, check, clock)

\* eventSummary.mjs:242-246, the defaults of the options
DefaultOptions(scheduled) ==
  [countThreshold |-> countThreshold, maxAgeSeconds |-> maxAgeSeconds,
   isScheduledCheck |-> scheduled]

\* --------------------------------------------------- processProjectEvents
\* variant: a direct invocation returns early only below the count threshold
ReturnsOnDirectInvocation_BelowThreshold(scheduled, events) ==
  ~scheduled /\ Len(events) < countThreshold

\* index.mjs:101
ReturnsOnDirectInvocation(scheduled, events) == ~scheduled

\* variant: an empty list goes on to the chunk loop
NothingToProcess_Never(scheduled, events) == FALSE

\* variant: a scheduled check goes on only when shouldSendSummary says so
NothingToProcess_UnlessPolicy(scheduled, events) ==
  ~shouldSendSummary(events, DefaultOptions(scheduled), now)

\* index.mjs:111
NothingToProcess(scheduled, events) == Len(events) = 0

\* the result objects of index.mjs:160-166, 201-207 and 212-219
Outcome(ok, act, events, partials, errors) ==
  [success |-> ok, action |-> act, eventCount |-> Len(events),
   partialCount |-> Len(partials), chunkErrors |-> errors]

\* index.mjs:91-131 with dynamoUtils.mjs:81-109: the query returns (a
\* failed query yields no events), then the two early returns
ReadPending(i) ==
  /\ pc[i] = "get_all"
  /\ \E outcome \in CallOutcomes :
       LET events == IF outcome = "ok" THEN QueryItems(projectName[i])
                     ELSE <<>>
       IN  /\ allEvents' = [allEvents EXCEPT ![i] = events]
           /\ getSuccess' = [getSuccess EXCEPT ![i] = (outcome = "ok")]
           /\ IF ReturnsOnDirectInvocation(isScheduledCheck[i], events)
              THEN /\ result' = [result EXCEPT ![i] =
                        [NoResult EXCEPT
                           !.success = TRUE,
                           !.action =
                             "event_stored_no_summary_sent_on_direct_invocation",
                           !.eventCount = Len(events)]]
                   /\ pc' = [pc EXCEPT ![i] = "return"]
              ELSE IF NothingToProcess(isScheduledCheck[i], events)
              THEN /\ result' = [result EXCEPT ![i] =
                        [NoResult EXCEPT
                           !.success = TRUE,
                           !.action = "no_events_to_process"]]
                   /\ pc' = [pc EXCEPT ![i] = "return"]
              ELSE /\ result' = result
                   /\ pc' = [pc EXCEPT ![i] = "chunk"]
  /\ UNCHANGED <<storeVars, ctlVars, loopI, partialSummaryTexts, chunkErrors,
                 eventsProcessedInChunks, finalSummaryMessage, slackResponse,
                 deleteI, deleteRequests, batchResults, calls, ghostVars, checkVars>>

\* variant: the all-chunks-failed return tests for an empty batch
AllChunksFailed_EmptyBatch(partials, events) ==
  Len(partials) = 0 /\ Len(events) = 0

\* index.mjs:158
AllChunksFailed(partials, events) == Len(partials) = 0 /\ Len(events) > 0

\* variant: a chunk whose summarization threw ends the loop
ChunkLoopContinues_AbortOnThrow(outcome, from, events) ==
  outcome # "throw" /\ from < Len(events)

\* index.mjs:133 and 149-153: the loop condition, tested after the call for
\* a chunk returned or threw; the catch does not leave the loop
ChunkLoopContinues(outcome, from, events) == from < Len(events)

\* index.mjs:133-172: generateEventSummary returns or throws for the chunk
\* at loopI; after the last chunk, the all-chunks-failed return.  A partial
\* text is identified by the position of its call in the loop.  With a
\* chunk size below 1 the loop does not end: it is followed for
\* MaxLoopCalls calls.
SummarizeChunk(i) ==
  /\ pc[i] = "chunk"
  /\ MAX_EVENTS_PER_CHUNK >= 1 \/ Len(chunks[i]) < MaxLoopCalls
  /\ \E outcome \in SummarizerOutcomesFor(ChunkAt(allEvents[i], loopI[i])) :
       /\ partialSummaryTexts' = [partialSummaryTexts EXCEPT ![i] =
            IF outcome = "text" THEN Append(@, Len(chunks[i]) + 1) ELSE @]
       /\ eventsProcessedInChunks' = [eventsProcessedInChunks EXCEPT ![i] =
            IF outcome = "throw" THEN @
            ELSE @ + Len(ChunkAt(allEvents[i], loopI[i]))]
       /\ chunkErrors' = [chunkErrors EXCEPT ![i] =
            IF outcome = "throw" THEN @ + 1 ELSE @]
       /\ chunks' = [chunks EXCEPT ![i] =
            Append(@, [events |-> ChunkAt(allEvents[i], loopI[i]),
                       outcome |-> outcome])]
       /\ calls' = [calls EXCEPT ![i].summarizer = @ + 1]
       /\ loopI' = [loopI EXCEPT ![i] = @ + MAX_EVENTS_PER_CHUNK]
       /\ IF ChunkLoopContinues(outcome, loopI'[i], allEvents[i])
          THEN UNCHANGED <<pc, result>>
          ELSE IF AllChunksFailed(partialSummaryTexts'[i], allEvents[i])
          THEN /\ result' = [result EXCEPT ![i] =
                    Outcome(FALSE, "all_chunks_failed_to_summarize",
                            allEvents[i], partialSummaryTexts'[i],
                            chunkErrors'[i])]
               /\ pc' = [pc EXCEPT ![i] = "return"]
          ELSE /\ pc' = [pc EXCEPT ![i] = "final"]
               /\ result' = result
  /\ UNCHANGED <<storeVars, ctlVars, allEvents, getSuccess,
                 finalSummaryMessage, slackResponse, deleteI, deleteRequests,
                 batchResults, victims, checkVars>>

\* variant: one partial text is promoted whatever the chunk error count
UsePromotion_IgnoreErrors(partials, errors) == Len(partials) = 1

\* index.mjs:176
UsePromotion(partials, errors) == Len(partials) = 1 /\ errors = 0

\* eventSummary.mjs:143: with no partial text the consolidator answers with
\* a fixed message and makes no call to the model
ConsolidatorCalls(partials) == IF Len(partials) = 0 THEN 0 ELSE 1

\* variant: the events are deleted before the summary is posted
AfterFinalSummary_DeleteFirst(outcome) ==
  IF outcome = "ok" THEN "delete" ELSE "return"

\* variant: a failed final summary is posted all the same
AfterFinalSummary_IgnoreThrow(outcome) == "post"

\* index.mjs:174-190 and 209-220: where the flush goes after the promotion
\* or the consolidation call; a throw is caught at index.mjs:209
AfterFinalSummary(outcome) == IF outcome = "ok" THEN "post" ELSE "return"

\* variant: a failed post does not stop the flush
AfterPostToSlack_NoCatch(outcome) == "delete"

\* index.mjs:191-194 and 209-220: where the flush goes after postToSlack
AfterPostToSlack(outcome) == IF outcome = "ok" THEN "delete" ELSE "return"

\* variant: only the events of the summarized chunks are deleted
EventsToDelete_SummarizedOnly(i) ==
  Flatten([k \in 1..Len(partialSummaryTexts[i]) |->
             chunks[i][partialSummaryTexts[i][k]].events])

\* index.mjs:196, the events handed to batchDeleteEvents
EventsToDelete(i) == allEvents[i]

\* index.mjs:174-188: the final summary is regenerated from the first
\* chunk (promotion) or consolidated from the partial texts
FinalSummary(i) ==
  /\ pc[i] = "final"
  /\ \E outcome \in CallOutcomes :
       LET promote == UsePromotion(partialSummaryTexts[i], chunkErrors[i])
           made == IF promote
                   THEN "throw" \in SummarizerOutcomesFor(
                          Slice(allEvents[i], 0, MAX_EVENTS_PER_CHUNK))
                   ELSE ConsolidatorCalls(partialSummaryTexts[i]) > 0
           \* the fixed messages of eventSummary.mjs:13-26 and 143-156
           \* cannot throw
           out == IF made THEN outcome ELSE "ok"
           who == IF promote THEN "summarizer" ELSE "consolidator"
       IN  /\ calls' = [calls EXCEPT ![i] =
                [@ EXCEPT
                   !.summarizer = IF promote THEN @ + 1 ELSE @,
                   !.consolidator =
                     IF promote THEN @
                     ELSE @ + ConsolidatorCalls(partialSummaryTexts[i]),
                   !.threw = IF out = "ok" THEN @ ELSE who]]
           /\ finalSummaryMessage' = [finalSummaryMessage EXCEPT ![i] =
                IF out # "ok" THEN NoMessage
                ELSE IF promote
                THEN [from |-> "promotion", texts |-> <<>>,
                      events |-> IdsOf(Slice(allEvents[i], 0,
                                             MAX_EVENTS_PER_CHUNK))]
                ELSE [from |-> "consolidation",
                      texts |-> partialSummaryTexts[i],
                      events |-> UNION {IdsOf(chunks[i][n].events) :
                                          n \in Range(partialSummaryTexts[i])}]]
           /\ pc' = [pc EXCEPT ![i] = AfterFinalSummary(out)]
           /\ result' = [result EXCEPT ![i] =
                IF AfterFinalSummary(out) = "return"
                THEN Outcome(FALSE, "final_summary_processing_failed",
                             allEvents[i], partialSummaryTexts[i], chunkErrors[i])
                ELSE @]
  /\ UNCHANGED <<storeVars, ctlVars, allEvents, getSuccess, loopI,
                 partialSummaryTexts, chunkErrors, eventsProcessedInChunks,
                 slackResponse, deleteI, deleteRequests, batchResults,
                 ghostVars, checkVars>>

\* index.mjs:191 with index.mjs:40-62: the Slack webhook answers
PostToSlack(i) ==
  /\ pc[i] = "post"
  /\ \E outcome \in CallOutcomes :
       /\ slackResponse' = [slackResponse EXCEPT ![i] = outcome]
       /\ pc' = [pc EXCEPT ![i] = AfterPostToSlack(outcome)]
       /\ result' = [result EXCEPT ![i] =
            IF AfterPostToSlack(outcome) = "return"
            THEN Outcome(FALSE, "final_summary_processing_failed",
                         allEvents[i], partialSummaryTexts[i], chunkErrors[i])
            ELSE @]
  /\ calls' = [calls EXCEPT ![i].slack = @ + 1]
  /\ UNCHANGED <<storeVars, ctlVars, allEvents, getSuccess, loopI,
                 partialSummaryTexts, chunkErrors, eventsProcessedInChunks,
                 finalSummaryMessage, deleteI, deleteRequests, batchResults,
                 ghostVars, checkVars>>

\* dynamoUtils.mjs:133, an event without its key attributes
MissingKeys(event) == event.projectName = "" \/ event.eventTime = 0

\* BatchWrite of DeleteRequests: the items that have these keys go
DeleteKeys(items, keys) == {x \in items : KeyOf(x) \notin keys}

\* variant: one batch holds every event that is left
DeleteBatchAt_Uncapped(events, from) == Slice(events, from, Len(events))

\* dynamoUtils.mjs:127, the events of the batch that starts at index from
DeleteBatchAt(events, from) == Slice(events, from, from + BATCH_SIZE)

\* variant: a failed BatchWrite ends the loop
DeleteLoopContinues_StopOnError(outcome, from, events) ==
  outcome = "ok" /\ from < Len(events)

\* dynamoUtils.mjs:126 and 160-167: the loop condition, tested after the
\* BatchWrite of a batch returned or threw; the catch does not leave the loop
DeleteLoopContinues(outcome, from, events) == from < Len(events)

\* dynamoUtils.mjs:170-178, what batchDeleteEvents returns
DeleteResult(i) ==
  [success |-> \A k \in 1..Len(batchResults[i]) : batchResults[i][k],
   totalProcessed |-> Len(EventsToDelete(i)),
   batchResults |-> batchResults[i]]

\* variant: the flush reports a failure when the delete result is one
ActionAfterDelete_CheckResult(deleteSuccess) ==
  IF deleteSuccess THEN "consolidated_summary_sent"
  ELSE "final_summary_processing_failed"

\* index.mjs:195-207: the delete result is logged and the flush returns
\* consolidated_summary_sent whatever it is
ActionAfterDelete(deleteSuccess) == "consolidated_summary_sent"

\* dynamoUtils.mjs:127-179 called from index.mjs:195-207: one BatchWrite of
\* at most BATCH_SIZE delete requests per step; a failed call is recorded
\* and the loop goes on; an event without keys throws out of the loop
BatchDeleteStep(i) ==
  /\ pc[i] = "delete"
  /\ LET events == EventsToDelete(i)
         batch == DeleteBatchAt(events, deleteI[i])
         keys == [k \in 1..Len(batch) |-> KeyOf(batch[k])]
     IN  IF \E e \in Range(batch) : MissingKeys(e)
         THEN /\ result' = [result EXCEPT ![i] =
                   Outcome(FALSE, "final_summary_processing_failed",
                           allEvents[i], partialSummaryTexts[i], chunkErrors[i])]
              /\ pc' = [pc EXCEPT ![i] = "return"]
              /\ UNCHANGED <<store, deleteI, deleteRequests, batchResults,
                             victims>>
         ELSE \E outcome \in CallOutcomes :
                /\ deleteRequests' =
                     [deleteRequests EXCEPT ![i] = Append(@, keys)]
                /\ batchResults' =
                     [batchResults EXCEPT ![i] = Append(@, outcome = "ok")]
                /\ store' = IF outcome = "ok"
                            THEN DeleteKeys(store, Range(keys))
                            ELSE store
                /\ victims' = [victims EXCEPT ![i] =
                     @ \cup {x.id : x \in store \ store'}]
                /\ deleteI' = [deleteI EXCEPT ![i] = @ + BATCH_SIZE]
                /\ IF DeleteLoopContinues(outcome, deleteI'[i], events)
                   THEN UNCHANGED <<pc, result>>
                   ELSE LET done == [k \in 1..Len(batchResults'[i]) |->
                                       batchResults'[i][k]]
                            act == ActionAfterDelete(
                                     \A k \in 1..Len(done) : done[k])
                        IN  /\ pc' = [pc EXCEPT ![i] = "return"]
                            /\ result' = [result EXCEPT ![i] =
                                 Outcome(act = "consolidated_summary_sent",
                                         act, allEvents[i],
                                         partialSummaryTexts[i],
                                         chunkErrors[i])]
  /\ UNCHANGED <<now, nextId, envMaxChunk, ctlVars, allEvents, getSuccess,
                 loopI, partialSummaryTexts, chunkErrors,
                 eventsProcessedInChunks, finalSummaryMessage, slackResponse,
                 calls, chunks, checkVars>>

\* variant: a failure result ends the walk over projectNames
AfterProject_StopOnFailure(res, idx) ==
  IF res.success THEN idx ELSE Len(projectNames)

\* index.mjs:265-302: the position from which the loop goes on after the
\* project at position idx has returned res; the try of index.mjs:266 and
\* the catch of index.mjs:298-301 are inside the loop body, and nothing in
\* the body reads the result, so the loop goes on from idx whatever res is
AfterProject(res, idx) == idx

\* index.mjs:297, results[projectName] = result
ProjectResult(i) ==
  [projectName |-> projectName[i], success |-> result[i].success]

\* processProjectEvents has returned: the webhook invocation ends
\* (index.mjs:339-348), the scheduled one records the result and goes on
\* with the next project (index.mjs:297-302)
Return(i) ==
  /\ pc[i] = "return"
  /\ IF kind[i] = "sweep"
     THEN /\ SweepFrom(i, AfterProject(result[i], projIdx[i]))
          /\ results' = [results EXCEPT ![i] =
               IF NextProject(AfterProject(result[i], projIdx[i]))
                    > Len(projectNames)
               THEN <<>>
               ELSE Append(results[i], ProjectResult(i))]
          /\ UNCHANGED currentTime
     ELSE /\ pc' = [pc EXCEPT ![i] = "idle"]
          /\ kind' = [kind EXCEPT ![i] = "none"]
          /\ projectName' = [projectName EXCEPT ![i] = ""]
          /\ isScheduledCheck' = [isScheduledCheck EXCEPT ![i] = FALSE]
          /\ currentTime' = [currentTime EXCEPT ![i] = 0]
          /\ UNCHANGED <<projIdx, results>>
  /\ ResetFlush(i)
  /\ UNCHANGED <<storeVars, checkVars>>

\* ------------------------------------------------------------ specification
Next ==
  \/ Tick
  \/ \E i \in Inv : StartWebhook(i)
  \/ \E i \in Inv : StoreEventPut(i)
  \/ \E i \in Inv : StartScheduled(i)
  \/ \E i \in Inv : ReadPending(i)
  \/ \E i \in Inv : SummarizeChunk(i)
  \/ \E i \in Inv : FinalSummary(i)
  \/ \E i \in Inv : PostToSlack(i)
  \/ \E i \in Inv : BatchDeleteStep(i)
  \/ \E i \in Inv : Return(i)

Spec == Init /\ [][Next]_vars

\* the same system on a table whose ttl attribute is enabled
NextWithTtl == Next \/ ExpireItem

SpecWithTtl == Init /\ [][NextWithTtl]_vars

\* A burst of webhooks with no scheduled event in between: the table already
\* holds countThreshold - 1 events of one project, stored in the
\* milliseconds before the first state, and only webhooks arrive
Preloaded ==
  {[projectName |-> "redline",
    eventTime |-> TickMs - 1 + k,
    id |-> k,
    ttl |-> Seconds(TickMs - 1 + k) + TTL_SECONDS] :
     k \in (2 - countThreshold)..0}

InitBurst ==
  /\ now = TickMs
  /\ store = Preloaded
  /\ nextId = 1
  /\ envMaxChunk \in EnvChunkValues
  /\ IdleLocals
  /\ summaryCheck = NoCheck
  /\ IdleLib

NextWebhook ==
  \/ Tick
  \/ \E i \in Inv : StartWebhook(i)
  \/ \E i \in Inv : StoreEventPut(i)
  \/ \E i \in Inv : ReadPending(i)
  \/ \E i \in Inv : Return(i)

SpecWebhook == InitBurst /\ [][NextWebhook]_vars

\* ------------------------------------------------- shouldSendSummary alone
\* the function applied to event lists and options drawn from bounded sets
\* the clock of the call: two hours after the first tick
CheckClocks == {TickMs + maxAgeSeconds * 1000}

\* event times, in the unit the function computes with: as old as
\* maxAgeSeconds at the clock of the call, one second more, one second less,
\* and the time of the call
CheckEventTimes ==
  {Seconds(TickMs) - 1, Seconds(TickMs), Seconds(TickMs) + 1,
   Seconds(TickMs) + maxAgeSeconds}

EventAt(t, k) ==
  [projectName |-> "redline", eventTime |-> t, id |-> k,
   ttl |-> t + TTL_SECONDS]

\* every list of at most MaxCheckLen events, in every order
ShortLists ==
  UNION {[1..n -> CheckEventTimes] : n \in 0..MaxCheckLen}

\* lists about as long as the default count threshold: events of the time
\* of the call, and one event of any time at the end
LongLists ==
  {[k \in 1..n |-> IF k = n THEN t ELSE Seconds(TickMs) + maxAgeSeconds] :
     n \in (countThreshold - 1)..(countThreshold + 1), t \in CheckEventTimes}

\* the calls: options are the defaults of eventSummary.mjs:242-246 or a
\* smaller count threshold, isScheduledCheck as the caller passes it
CheckInputs ==
  {[defined |-> TRUE,
    events |-> [k \in 1..Len(times) |-> EventAt(times[k], k)],
    countThreshold |-> c, maxAgeSeconds |-> maxAgeSeconds,
    isScheduledCheck |-> scheduled, clock |-> 0, done |-> FALSE,
    returned |-> FALSE] :
     times \in ShortLists \cup LongLists,
     c \in {SmallThreshold, countThreshold},
     scheduled \in BOOLEAN}
  \cup
  {[defined |-> FALSE, events |-> <<>>,
    countThreshold |-> c, maxAgeSeconds |-> maxAgeSeconds,
    isScheduledCheck |-> scheduled, clock |-> 0, done |-> FALSE,
    returned |-> FALSE] :
     c \in {SmallThreshold, countThreshold},
     scheduled \in BOOLEAN}

InitCheck ==
  /\ now \in CheckClocks
  /\ store = {}
  /\ nextId = 1
  /\ envMaxChunk = <<>>
  /\ IdleLocals
  /\ summaryCheck \in CheckInputs
  /\ IdleLib

\* the call returns
CallShouldSendSummary ==
  /\ ~summaryCheck.done
  /\ summaryCheck' =
       [summaryCheck EXCEPT
          !.clock = now,
          !.done = TRUE,
          !.returned = shouldSendSummaryOf(summaryCheck, now)]
  /\ UNCHANGED <<storeVars, invVars, flushVars, ghostVars, libVars>>

NextCheck == CallShouldSendSummary

SpecCheck == InitCheck /\ [][NextCheck]_vars

\* ----------------------------------- shouldSendSummary on the stored events
\* webhooks store events, maxAgeSeconds go by, and a scheduled check asks
\* shouldSendSummary about the pending events of a project
Elapse ==
  /\ now + maxAgeSeconds * 1000 <= TickMs * (1 + MaxTicks)
                                     + MaxWaits * maxAgeSeconds * 1000
  /\ now' = now + maxAgeSeconds * 1000
  /\ UNCHANGED <<store, nextId, envMaxChunk, invVars, flushVars, ghostVars,
                 checkVars>>

\* the list that getAllProjectEvents returns is handed to shouldSendSummary
\* with isScheduledCheck true and the default thresholds
CheckStored ==
  /\ \E p \in EventProjects :
       LET check == [defined |-> TRUE, events |-> QueryItems(p),
                     countThreshold |-> countThreshold,
                     maxAgeSeconds |-> maxAgeSeconds,
                     isScheduledCheck |-> TRUE, clock |-> now,
                     done |-> TRUE, returned |-> FALSE]
       IN  summaryCheck' =
             [check EXCEPT !.returned = shouldSendSummaryOf(check, now)]
  /\ UNCHANGED <<storeVars, invVars, flushVars, ghostVars, libVars>>

NextStored ==
  \/ Tick
  \/ Elapse
  \/ \E i \in Inv : StartWebhook(i)
  \/ \E i \in Inv : StoreEventPut(i)
  \/ \E i \in Inv : ReadPending(i)
  \/ \E i \in Inv : Return(i)
  \/ CheckStored

SpecStored == Init /\ [][NextStored]_vars

\* ------------------------------------------------- the flush of one batch
\* one scheduled invocation on a table that holds a batch of pending events
\* of one project, with several values of MAX_EVENTS_PER_CHUNK
\* n events stored in the n milliseconds before the first state
Pending(n) ==
  {[projectName |-> "redline",
    eventTime |-> TickMs - 1 + k,
    id |-> k,
    ttl |-> Seconds(TickMs - 1 + k) + TTL_SECONDS] :
     k \in (1 - n)..0}

\* the batch of the scenario: two events more than the count threshold
ScenarioEvents == countThreshold + 2

\* batch sizes and MAX_EVENTS_PER_CHUNK values: small batches with chunk
\* sizes 0 to 3 and the default; with the default, the scenario batch and
\* batches that fill one, two and three BatchWrites
BatchInputs ==
  {[events |-> n, env |-> env] :
     n \in 0..MaxBatch,
     env \in {<<>>, <<"0">>, <<"1">>, <<"2">>, <<"3">>}}
  \cup {[events |-> n, env |-> <<>>] :
          n \in {ScenarioEvents, BATCH_SIZE, BATCH_SIZE + 1,
                 2 * BATCH_SIZE + 1}}

InitBatch ==
  /\ now = TickMs
  /\ \E input \in BatchInputs :
       /\ store = Pending(input.events)
       /\ envMaxChunk = input.env
  /\ nextId = 1
  /\ IdleLocals
  /\ summaryCheck = NoCheck
  /\ IdleLib

\* the invocation that the schedule starts
Scheduled == {1}

NextBatch ==
  \/ \E i \in Scheduled : StartScheduled(i)
  \/ \E i \in Scheduled : ReadPending(i)
  \/ \E i \in Scheduled : SummarizeChunk(i)
  \/ \E i \in Scheduled : FinalSummary(i)
  \/ \E i \in Scheduled : PostToSlack(i)
  \/ \E i \in Scheduled : BatchDeleteStep(i)
  \/ \E i \in Scheduled : Return(i)

SpecBatch == InitBatch /\ [][NextBatch]_vars

\* --------------------------------------------- a sweep over every project
\* one scheduled invocation on a table that holds one pending event of each
\* project of projectNames
PendingOfEach ==
  {[projectName |-> projectNames[k],
    eventTime |-> TickMs - k,
    id |-> 1 - k,
    ttl |-> Seconds(TickMs - k) + TTL_SECONDS] :
     k \in 1..Len(projectNames)}

InitSweep ==
  /\ now = TickMs
  /\ store = PendingOfEach
  /\ nextId = 1
  /\ envMaxChunk \in EnvChunkValues
  /\ IdleLocals
  /\ summaryCheck = NoCheck
  /\ IdleLib

SpecSweep == InitSweep /\ [][NextBatch]_vars

\* ------------------------------------------------ sweeps that keep coming
\* scheduled invocations on a table that holds pending events of one project;
\* the schedule keeps starting sweeps, an invocation that can take a step
\* takes it, and each external call that is made again and again succeeds
\* again and again
InitRetry ==
  /\ now = TickMs
  /\ \E n \in 1..MaxEvents : store = Pending(n)
  /\ nextId = 1
  /\ envMaxChunk \in EnvChunkValues
  /\ IdleLocals
  /\ summaryCheck = NoCheck
  /\ IdleLib

NextRetry ==
  \/ \E i \in Inv : StartScheduled(i)
  \/ \E i \in Inv : ReadPending(i)
  \/ \E i \in Inv : SummarizeChunk(i)
  \/ \E i \in Inv : FinalSummary(i)
  \/ \E i \in Inv : PostToSlack(i)
  \/ \E i \in Inv : BatchDeleteStep(i)
  \/ \E i \in Inv : Return(i)

\* the call of invocation i succeeds: the query for a project that has
\* pending events, the summarizer for a chunk, the final summary, the Slack
\* post, the BatchWrite
ReadSucceeds(i) ==
  ReadPending(i) /\ getSuccess'[i] /\ Len(allEvents'[i]) > 0

ChunkSucceeds(i) ==
  SummarizeChunk(i)
    /\ Len(partialSummaryTexts'[i]) > Len(partialSummaryTexts[i])

FinalSucceeds(i) == FinalSummary(i) /\ pc'[i] = "post"

PostSucceeds(i) == PostToSlack(i) /\ pc'[i] = "delete"

DeleteSucceeds(i) ==
  BatchDeleteStep(i) /\ batchResults'[i][Len(batchResults'[i])]

FairRetry ==
  \A i \in Inv :
    /\ WF_vars(StartScheduled(i))
    /\ WF_vars(ReadPending(i))
    /\ WF_vars(SummarizeChunk(i))
    /\ WF_vars(FinalSummary(i))
    /\ WF_vars(PostToSlack(i))
    /\ WF_vars(BatchDeleteStep(i))
    /\ WF_vars(Return(i))
    /\ SF_vars(ReadSucceeds(i))
    /\ SF_vars(ChunkSucceeds(i))
    /\ SF_vars(FinalSucceeds(i))
    /\ SF_vars(PostSucceeds(i))
    /\ SF_vars(DeleteSucceeds(i))

SpecRetry == InitRetry /\ [][NextRetry]_vars /\ FairRetry

\* the same sweeps on a table whose ttl attribute is in force: time passes
\* and DynamoDB removes the items whose ttl has passed
NextExpiry == NextRetry \/ Tick \/ ExpireItem

SpecExpiry == InitRetry /\ [][NextExpiry]_vars /\ FairRetry

\* ------------------------------------------- get, delete, get on the table
\* testDynamoUtils.mjs:46-81: getAllProjectEvents, batchDeleteEvents on the
\* events it returned, getAllProjectEvents again; nothing else writes
\* what a BatchWriteCommand does: it deletes every key, it throws, or it
\* returns with some of its keys in UnprocessedItems
BatchWriteOutcomes == {"ok", "throw", "unprocessed"}

InitRoundTrip ==
  /\ now = TickMs
  /\ \E n \in (0..MaxBatch) \cup {BATCH_SIZE + 1} : store = Pending(n)
  /\ nextId = 1
  /\ envMaxChunk = <<>>
  /\ IdleLocals
  /\ summaryCheck = NoCheck
  /\ batchTable = NoItem
  /\ adder = [a \in Adders |-> NoAdd]
  /\ addCalls = 0
  /\ roundTrip = NoRoundTrip

\* dynamoUtils.mjs:81-109, getAllProjectEvents; a batchDeleteEvents call on
\* an empty list sends nothing and reports success (dynamoUtils.mjs:126, 171)
GetAllProjectEvents ==
  /\ roundTrip.pc = "idle"
  /\ \E outcome \in CallOutcomes :
       LET events == IF outcome = "ok" THEN QueryItems("redline") ELSE <<>>
       IN  roundTrip' =
             [roundTrip EXCEPT
                !.events = events,
                !.getSuccess = (outcome = "ok"),
                !.pc = IF events = <<>> THEN "deleted" ELSE "delete"]
  /\ UNCHANGED <<storeVars, invVars, flushVars, ghostVars, summaryCheck,
                 batchTable, adder, addCalls>>

\* the items that a BatchWrite leaves when the last k of its keys come back
\* in UnprocessedItems
DeleteProcessed(items, keys, k) ==
  DeleteKeys(items, Range(SubSeq(keys, 1, Len(keys) - k)))

\* dynamoUtils.mjs:126-168, one pass of the loop of batchDeleteEvents: the
\* result of a BatchWrite that returned is pushed with success true
BatchDeleteEvents ==
  /\ roundTrip.pc = "delete"
  /\ LET batch == DeleteBatchAt(roundTrip.events, roundTrip.i)
         keys == [k \in 1..Len(batch) |-> KeyOf(batch[k])]
     IN  IF \E e \in Range(batch) : MissingKeys(e)
         THEN /\ roundTrip' = [roundTrip EXCEPT !.pc = "thrown"]
              /\ store' = store
         ELSE \E outcome \in BatchWriteOutcomes, k \in 1..Len(keys) :
                /\ store' =
                     CASE outcome = "ok" -> DeleteKeys(store, Range(keys))
                       [] outcome = "throw" -> store
                       [] outcome = "unprocessed" ->
                            DeleteProcessed(store, keys, k)
                /\ roundTrip' =
                     [roundTrip EXCEPT
                        !.results = Append(@, outcome # "throw"),
                        !.i = @ + BATCH_SIZE,
                        !.pc = IF DeleteLoopContinues(
                                     outcome, roundTrip.i + BATCH_SIZE,
                                     roundTrip.events)
                               THEN "delete" ELSE "deleted"]
  /\ UNCHANGED <<now, nextId, envMaxChunk, invVars, flushVars, ghostVars,
                 summaryCheck, batchTable, adder, addCalls>>

\* testDynamoUtils.mjs:71-74, the second getAllProjectEvents
VerifyDeletion ==
  /\ roundTrip.pc = "deleted"
  /\ \E outcome \in CallOutcomes :
       roundTrip' =
         [roundTrip EXCEPT
            !.verify = IF outcome = "ok" THEN QueryItems("redline")
                       ELSE <<>>,
            !.verifySuccess = (outcome = "ok"),
            !.pc = "verified"]
  /\ UNCHANGED <<storeVars, invVars, flushVars, ghostVars, summaryCheck,
                 batchTable, adder, addCalls>>

NextRoundTrip ==
  \/ GetAllProjectEvents
  \/ BatchDeleteEvents
  \/ VerifyDeletion

SpecRoundTrip == InitRoundTrip /\ [][NextRoundTrip]_vars

\* --------------------------------------------------- determineProjectName
\* index.mjs:68-75, the values of slackChannels in key order: the webhook
\* URLs of the environment, one per variable
channelUrls ==
  <<"REDLINE_CHANNEL_WEBHOOK", "LYMPHAPRESS_CHANNEL_WEBHOOK",
    "BOT_TEST_CHANNEL_WEBHOOK", "BOT_TEST_CHANNEL_WEBHOOK",
    "SILO_DOWN_CHANNEL_WEBHOOK", "SILO_DOWN_CHANNEL_WEBHOOK">>

\* agents.mjs:107-181, determineSlackChannel returns the URL of one of the
\* channels
WebhookUrls == Range(channelUrls)

\* projectDetection.mjs:9-14, Object.keys(PROJECT_KEYWORDS) in order
PROJECT_KEYWORDS == <<"lymphapress", "redline", "silo-down", "pasley-hill">>

\* the projects of which a keyword occurs in a content: none, one, or all
ContentHits ==
  {{}} \cup {{k} : k \in 1..Len(PROJECT_KEYWORDS)}
       \cup {1..Len(PROJECT_KEYWORDS)}

\* projectDetection.mjs:48-53, 77-82, 86-91: the first project, in key
\* order, that has a keyword in the content; "" for none
FirstHit(hits) ==
  IF hits = {} THEN ""
  ELSE PROJECT_KEYWORDS[CHOOSE k \in hits : \A m \in hits : k <= m]

\* projectDetection.mjs:22-95: the scan of the GitHub or Trello content,
\* then the scan of the whole event; "" stands for null
detectProjectFromContent(sourceHits, genericHits) ==
  IF FirstHit(sourceHits) # "" THEN FirstHit(sourceHits)
  ELSE FirstHit(genericHits)

\* projectDetection.mjs:103-129
getProjectNameFromWebhook(webhookUrl) ==
  LET entry == FindKey({k \in KeyIndexes : channelUrls[k] = webhookUrl})
      channelName == slackChannelKeys[entry]
  IN  IF entry = 0 THEN "unknown"
      ELSE IF Includes(channelName, "redline") THEN "redline"
      ELSE IF Includes(channelName, "lymphapress") THEN "lymphapress"
      ELSE IF Includes(channelName, "silo-down") THEN "silo-down"
      ELSE IF Includes(channelName, "pasley-hill") THEN "pasley-hill"
      ELSE IF Includes(channelName, "bottest")
      THEN IF Includes(channelName, "redline") THEN "redline"
           ELSE IF Includes(channelName, "lympha") THEN "lymphapress"
           ELSE IF Includes(channelName, "silo") THEN "silo-down"
           ELSE IF Includes(channelName, "pasley") THEN "pasley-hill"
           ELSE "unknown"
      ELSE channelName

\* projectDetection.mjs:139-153
determineProjectName(sourceHits, genericHits, webhookUrl) ==
  LET contentProject == detectProjectFromContent(sourceHits, genericHits)
  IN  IF contentProject # "" THEN contentProject
      ELSE getProjectNameFromWebhook(webhookUrl)

\* index.mjs:308-335 and dynamoUtils.mjs:42: a webhook arrives, the project
\* name is determined from its content and its channel, and storeEvent reads
\* the clock
StartDetectedWebhook(i) ==
  /\ pc[i] = "idle"
  /\ nextId <= MaxEvents
  /\ \E sourceHits \in ContentHits, genericHits \in ContentHits,
        webhookUrl \in WebhookUrls :
       projectName' = [projectName EXCEPT ![i] =
         determineProjectName(sourceHits, genericHits, webhookUrl)]
  /\ kind' = [kind EXCEPT ![i] = "webhook"]
  /\ isScheduledCheck' = [isScheduledCheck EXCEPT ![i] = FALSE]
  /\ currentTime' = [currentTime EXCEPT ![i] = now]
  /\ pc' = [pc EXCEPT ![i] = "store_put"]
  /\ UNCHANGED <<storeVars, projIdx, results, flushVars, ghostVars, checkVars>>

\* the invocation that the webhooks start
Webhooks == {2}

InitDetect ==
  /\ now = TickMs
  /\ store = {}
  /\ nextId = 1
  /\ envMaxChunk = <<>>
  /\ IdleLocals
  /\ summaryCheck = NoCheck
  /\ IdleLib

\* webhooks that store events under the project determined for them, and
\* scheduled sweeps
NextDetect ==
  \/ \E i \in Webhooks : StartDetectedWebhook(i)
  \/ \E i \in Webhooks : StoreEventPut(i)
  \/ \E i \in Scheduled : StartScheduled(i)
  \/ \E i \in Inv : ReadPending(i)
  \/ \E i \in Scheduled : SummarizeChunk(i)
  \/ \E i \in Scheduled : FinalSummary(i)
  \/ \E i \in Scheduled : PostToSlack(i)
  \/ \E i \in Scheduled : BatchDeleteStep(i)
  \/ \E i \in Inv : Return(i)

SpecDetect == InitDetect /\ [][NextDetect]_vars

\* ------------------------------------------------------- addEventToBatch
\* dynamodb.mjs: calls of addEventToBatch for one channel; every
\* docClient.send is a step of its own and returns or throws
\* dynamodb.mjs:24, parseInt(process.env.MAX_BATCH_SIZE || '5', 10) with
\* the variable not set
MAX_BATCH_SIZE == ParseInt(<<"5">>)

\* webhookHandler identifyWebhookSource: the source argument
Sources == {"github", "trello"}

FAIL == <<"f", "a", "i", "l">>
FAILED == <<"f", "a", "i", "l", "e", "d">>
COMPLETED == <<"c", "o", "m", "p", "l", "e", "t", "e", "d">>
JOB_FAILURE == <<"j", "o", "b", "_", "f", "a", "i", "l", "u", "r", "e">>

\* String.prototype.includes on character sequences
IncludesChars(h, n) ==
  \E k \in 0..(Len(h) - Len(n)) : \A j \in 1..Len(n) : h[k + j] = n[j]

\* the fields that isWorkflowFailure reads, with the values tried
FieldValues ==
  {[NoFields EXCEPT !.workflow_run = "failure"],
   [NoFields EXCEPT !.workflow_run = "success"],
   [NoFields EXCEPT !.workflow_job = "failure"],
   [NoFields EXCEPT !.check_run = "failure"],
   [NoFields EXCEPT !.check_run = "success", !.action = COMPLETED],
   [NoFields EXCEPT !.action = FAILED],
   [NoFields EXCEPT !.action = JOB_FAILURE],
   NoFields}

\* the event argument: the fields are in event.body, or in the event itself
\* when it has no body
EventShapes ==
  {[hasBody |-> TRUE, body |-> f, own |-> NoFields] : f \in FieldValues}
    \cup {[hasBody |-> FALSE, body |-> NoFields, own |-> f] :
            f \in FieldValues}

\* variant: only workflow_run is looked at
isWorkflowFailure_RunOnly(event) ==
  LET body == IF event.hasBody THEN event.body ELSE event.own
  IN  body.workflow_run = "failure"

\* dynamodb.mjs:121-146
isWorkflowFailure(event) ==
  LET body == IF event.hasBody THEN event.body ELSE event.own
  IN  \/ body.workflow_run = "failure"
      \/ body.workflow_job = "failure"
      \/ body.check_run = "failure"
      \/ body.action = FAILED
      \/ (body.action # <<>> /\ IncludesChars(body.action, FAIL))

\* dynamodb.mjs:38-42 and 108-112: the event is to be sent on its own
SendImmediately(call) ==
  [call EXCEPT !.pc = "done", !.batchComplete = FALSE,
               !.shouldSendImmediately = TRUE, !.events = <<call.ev>>]

\* dynamodb.mjs:34-43, the call and its special case, with the arguments
\* drawn from the given sources and events
AddStartWith(a, sources, shapes) ==
  /\ adder[a].pc = "idle"
  /\ addCalls < MaxAddCalls
  /\ addCalls' = addCalls + 1
  /\ \E source \in sources, event \in shapes :
       LET call == [NoAdd EXCEPT !.source = source, !.event = event,
                                 !.ev = addCalls + 1]
       IN  adder' = [adder EXCEPT ![a] =
             IF source = "github" /\ isWorkflowFailure(event)
             THEN SendImmediately(call)
             ELSE [call EXCEPT !.pc = "get"]]
  /\ UNCHANGED <<storeVars, invVars, flushVars, ghostVars, summaryCheck,
                 roundTrip, batchTable>>

AddStart(a) == AddStartWith(a, Sources, EventShapes)

\* the events of the concurrent calls: a GitHub event that is no failure and
\* a workflow_run failure
ConcurrentShapes ==
  {[hasBody |-> TRUE, body |-> f, own |-> NoFields] :
     f \in {NoFields, [NoFields EXCEPT !.workflow_run = "failure"]}}

AddStartConcurrent(a) == AddStartWith(a, {"github"}, ConcurrentShapes)

\* dynamodb.mjs:47-67, the GetCommand and the push onto the batch read
AddGet(a) ==
  /\ adder[a].pc = "get"
  /\ \E outcome \in CallOutcomes :
       adder' = [adder EXCEPT ![a] =
         IF outcome = "ok"
         THEN [@ EXCEPT !.pc = "put", !.sends = @ + 1,
                        !.existingBatch =
                          Append(batchTable.events, adder[a].ev)]
         ELSE SendImmediately([@ EXCEPT !.sends = @ + 1])]
  /\ UNCHANGED <<storeVars, invVars, flushVars, ghostVars, summaryCheck,
                 roundTrip, batchTable, addCalls>>

\* variant: the batch is complete only past the limit
BatchComplete_Greater(events) == Len(events) > MAX_BATCH_SIZE

\* dynamodb.mjs:81
BatchComplete(events) == Len(events) >= MAX_BATCH_SIZE

\* dynamodb.mjs:73-81 and 101-104, the PutCommand of the whole item
AddPut(a) ==
  /\ adder[a].pc = "put"
  /\ \E outcome \in CallOutcomes :
       IF outcome = "ok"
       THEN /\ batchTable' =
                 [defined |-> TRUE, events |-> adder[a].existingBatch]
            /\ adder' = [adder EXCEPT ![a] =
                 IF BatchComplete(adder[a].existingBatch)
                 THEN [@ EXCEPT !.pc = "delete", !.sends = @ + 1]
                 ELSE [@ EXCEPT !.pc = "done", !.sends = @ + 1,
                                !.batchComplete = FALSE,
                                !.events = adder[a].existingBatch]]
       ELSE /\ batchTable' = batchTable
            /\ adder' = [adder EXCEPT ![a] =
                 SendImmediately([@ EXCEPT !.sends = @ + 1])]
  /\ UNCHANGED <<storeVars, invVars, flushVars, ghostVars, summaryCheck,
                 roundTrip, addCalls>>

\* dynamodb.mjs:84-99, the DeleteCommand that clears the batch
AddDelete(a) ==
  /\ adder[a].pc = "delete"
  /\ \E outcome \in CallOutcomes :
       IF outcome = "ok"
       THEN /\ batchTable' = NoItem
            /\ adder' = [adder EXCEPT ![a] =
                 [@ EXCEPT !.pc = "done", !.sends = @ + 1,
                           !.batchComplete = TRUE,
                           !.events = adder[a].existingBatch]]
       ELSE /\ batchTable' = batchTable
            /\ adder' = [adder EXCEPT ![a] =
                 SendImmediately([@ EXCEPT !.sends = @ + 1])]
  /\ UNCHANGED <<storeVars, invVars, flushVars, ghostVars, summaryCheck,
                 roundTrip, addCalls>>

\* the caller has the return value and may call again
AddReturn(a) ==
  /\ adder[a].pc = "done"
  /\ adder' = [adder EXCEPT ![a] = NoAdd]
  /\ UNCHANGED <<storeVars, invVars, flushVars, ghostVars, summaryCheck,
                 roundTrip, batchTable, addCalls>>

InitAdd ==
  /\ now = TickMs
  /\ store = {}
  /\ nextId = 1
  /\ envMaxChunk = <<>>
  /\ IdleLocals
  /\ summaryCheck = NoCheck
  /\ IdleLib

\* one caller: the calls follow one another
NextAddOne ==
  \/ AddStart(1)
  \/ AddGet(1)
  \/ AddPut(1)
  \/ AddDelete(1)
  \/ AddReturn(1)

SpecAddOne == InitAdd /\ [][NextAddOne]_vars

\* two callers: Lambda invocations that run at the same time, their sends
\* interleaved
NextAddTwo ==
  \/ \E a \in Adders : AddStartConcurrent(a)
  \/ \E a \in Adders : AddGet(a)
  \/ \E a \in Adders : AddPut(a)
  \/ \E a \in Adders : AddDelete(a)
  \/ \E a \in Adders : AddReturn(a)

SpecAddTwo == InitAdd /\ [][NextAddTwo]_vars

\* ------------------------------------------------------------------ claims
\* a flush: a processProjectEvents call on a scheduled check
Returned(i) == pc[i] = "return"

\* the keys of the events the call has read, in the order read
ReadKeys(i) == [k \in 1..Len(allEvents[i]) |-> KeyOf(allEvents[i][k])]

\* the call has issued no delete request and removed nothing from the table
NoDelete(i) == deleteRequests[i] = <<>> /\ victims[i] = {}

\* the chunk loop of the call is over
LoopDone(i) == Len(allEvents[i]) > 0 /\ loopI[i] >= Len(allEvents[i])

\* real age of an event in seconds at clock time t
AgeSeconds(e, t) == Seconds(t - e.eventTime)

\* C1: when posting the final summary to Slack fails, the flush returns a
\* failure without having issued any delete request, and it has removed none
\* of the events it read from the table.
C1_NoDeleteAfterFailedDelivery ==
  \A i \in Inv :
    slackResponse[i] = "throw" =>
      /\ Returned(i)
      /\ ~result[i].success
      /\ NoDelete(i)

C1_Witness ==
  \E i \in Inv :
    /\ Returned(i)
    /\ isScheduledCheck[i]
    /\ slackResponse[i] = "throw"
    /\ Len(allEvents[i]) >= 1
    /\ Range(allEvents[i]) \subseteq store

\* C2: a flush reaches batchDeleteEvents, issues a delete request or removes
\* an item only after its postToSlack call for the final summary has returned
\* successfully.
C2_DeleteOnlyAfterDelivery ==
  \A i \in Inv :
    (pc[i] = "delete" \/ ~NoDelete(i)) =>
      /\ slackResponse[i] = "ok"
      /\ calls[i].slack = 1
      /\ finalSummaryMessage[i] # NoMessage

C2_Witness ==
  \E i \in Inv :
    /\ deleteRequests[i] # <<>>
    /\ victims[i] # {}
    /\ slackResponse[i] = "ok"

\* C3: a flush whose delivery succeeded returns having issued delete requests
\* for exactly the keys of the events it read, each once and in the order
\* read, the events of chunks whose summarization failed included.
C3_DeleteSetIsReadSet ==
  \A i \in Inv :
    (Returned(i) /\ slackResponse[i] = "ok") =>
      Flatten(deleteRequests[i]) = ReadKeys(i)

C3_Witness ==
  \E i \in Inv :
    /\ Returned(i)
    /\ slackResponse[i] = "ok"
    /\ chunkErrors[i] >= 1
    /\ Len(allEvents[i]) >= 2
    /\ Flatten(deleteRequests[i]) = ReadKeys(i)

\* C4: when the summarizer has thrown for every chunk of a non-empty batch,
\* the flush returns all_chunks_failed_to_summarize without a consolidation
\* call, a delivery or a delete request, and has removed nothing.
C4_AllChunksFailed ==
  \A i \in Inv :
    (LoopDone(i) /\ chunkErrors[i] = TotalChunks(allEvents[i])) =>
      /\ Returned(i)
      /\ result[i].action = "all_chunks_failed_to_summarize"
      /\ ~result[i].success
      /\ calls[i].consolidator = 0
      /\ calls[i].slack = 0
      /\ finalSummaryMessage[i] = NoMessage
      /\ NoDelete(i)

C4_Witness ==
  \E i \in Inv :
    /\ Returned(i)
    /\ TotalChunks(allEvents[i]) >= 2
    /\ chunkErrors[i] = TotalChunks(allEvents[i])
    /\ Range(allEvents[i]) \subseteq store

\* C5: when the consolidation call throws, the flush returns a failure
\* without a delivery or a delete request, and has removed nothing.
C5_ConsolidationFailed ==
  \A i \in Inv :
    calls[i].threw = "consolidator" =>
      /\ Returned(i)
      /\ ~result[i].success
      /\ result[i].action = "final_summary_processing_failed"
      /\ calls[i].slack = 0
      /\ slackResponse[i] = "none"
      /\ NoDelete(i)

C5_Witness ==
  \E i \in Inv :
    /\ Returned(i)
    /\ calls[i].threw = "consolidator"
    /\ Len(partialSummaryTexts[i]) >= 2
    /\ Range(allEvents[i]) \subseteq store

\* C6: a flush removes from the table only events that it read: an event
\* stored after the read is not deleted by that flush.
C6_OnlyReadEventsDeleted ==
  \A i \in Inv : victims[i] \subseteq IdsOf(allEvents[i])

\* C7: every event that a flush read and deleted was in a chunk whose
\* partial summary went into the delivered final summary, or the returned
\* outcome reports a non-zero chunk error count.
C7_DeletedIsIncorporatedOrReported ==
  \A i \in Inv :
    (Returned(i) /\ result[i].action = "consolidated_summary_sent") =>
      \A id \in victims[i] \cap IdsOf(allEvents[i]) :
        \/ id \in finalSummaryMessage[i].events
        \/ result[i].chunkErrors > 0

\* C8: no event is covered by the delivered summaries of two overlapping
\* flushes.
C8_NoDuplicateSummary ==
  \A i, j \in Inv :
    (i # j /\ slackResponse[i] = "ok" /\ slackResponse[j] = "ok") =>
      finalSummaryMessage[i].events \cap finalSummaryMessage[j].events = {}

\* the call is on the event-triggered path and has made no external call
\* beyond the read
DirectOnly(i) ==
  /\ pc[i] \in {"store_put", "get_all", "return"}
  /\ calls[i] = NoCalls
  /\ finalSummaryMessage[i] = NoMessage
  /\ slackResponse[i] = "none"
  /\ NoDelete(i)

YoungAndFew(i) ==
  /\ Len(allEvents[i]) < countThreshold
  /\ \A e \in Range(allEvents[i]) : AgeSeconds(e, now) < maxAgeSeconds

Checked == summaryCheck.done /\ summaryCheck.defined

\* the smallest eventTime of a non-empty list
SmallestEventTime(events) ==
  CHOOSE t \in {e.eventTime : e \in Range(events)} :
    \A e \in Range(events) : t <= e.eventTime

\* C11: shouldSendSummary returns true for every event list that has at
\* least countThreshold events, on a scheduled check or not, whatever the
\* event times.
C11_ThresholdAlwaysSends ==
  (Checked /\ Len(summaryCheck.events) >= summaryCheck.countThreshold) =>
    summaryCheck.returned = TRUE

C11_Witness ==
  /\ Checked
  /\ summaryCheck.countThreshold = countThreshold
  /\ Len(summaryCheck.events) = countThreshold
  /\ ~summaryCheck.isScheduledCheck
  /\ SmallestEventTime(summaryCheck.events) = Seconds(now)
  /\ summaryCheck.returned = TRUE

\* C12: shouldSendSummary returns false for every list with fewer than
\* countThreshold events when isScheduledCheck is false, whatever the event
\* times, and false for the empty list and for a missing list in every
\* context.
C12_BelowThresholdDirectNeverSends ==
  summaryCheck.done =>
    ((\/ ~summaryCheck.defined
      \/ Len(summaryCheck.events) = 0
      \/ /\ Len(summaryCheck.events) < summaryCheck.countThreshold
         /\ ~summaryCheck.isScheduledCheck)
       => summaryCheck.returned = FALSE)

C12_Witness ==
  /\ Checked
  /\ ~summaryCheck.isScheduledCheck
  /\ Len(summaryCheck.events) = countThreshold - 1
  /\ summaryCheck.countThreshold = countThreshold
  /\ Seconds(now) - SmallestEventTime(summaryCheck.events) > maxAgeSeconds
  /\ summaryCheck.returned = FALSE

C14_StoredAgeInSeconds ==
  (/\ Checked
   /\ summaryCheck.isScheduledCheck
   /\ Len(summaryCheck.events) > 0
   /\ AgeSeconds(OldestEvent(summaryCheck.events), summaryCheck.clock)
        >= summaryCheck.maxAgeSeconds) =>
    summaryCheck.returned = TRUE

\* the chunks that the loop of a call has summarized so far, in loop order
ChunkEvents(i) == [k \in 1..Len(chunks[i]) |-> chunks[i][k].events]

\* the first n elements of a sequence
Prefix(s, n) == SubSeq(s, 1, IF n < Len(s) THEN n ELSE Len(s))

\* ceil(l / n) for l >= 0 and n >= 1
CeilDiv(l, n) == CHOOSE c \in 0..l : (c - 1) * n < l /\ l <= c * n

\* the chunk loop of the call has ended and the call goes on after it
AfterLoop(i) == LoopDone(i) /\ pc[i] # "chunk"

\* C15: for a chunk size of at least 1, the chunks of the flush loop,
\* concatenated in loop order, are the events read so far: when the loop has
\* ended they are the whole list read, each event once, in the order read.
C15_ChunksPartitionBatch ==
  \A i \in Inv :
    MAX_EVENTS_PER_CHUNK >= 1 =>
      /\ Flatten(ChunkEvents(i)) = Prefix(allEvents[i], loopI[i])
      /\ AfterLoop(i) => Flatten(ChunkEvents(i)) = allEvents[i]

C15_Witness ==
  \E i \in Inv :
    /\ AfterLoop(i)
    /\ MAX_EVENTS_PER_CHUNK = 2
    /\ Len(allEvents[i]) = MaxBatch
    /\ Len(chunks[i]) = 3
    /\ Flatten(ChunkEvents(i)) = allEvents[i]

\* C16: for a list of L events and a chunk size n of at least 1, every chunk
\* has between 1 and n events, every chunk but the last has n, and the loop
\* makes ceil(L / n) summarizer calls, one per chunk; the batch of 22 events
\* with n = 15 gives two chunks of 15 and 7 events.
C16_ChunkSizesAndCount ==
  \A i \in Inv :
    MAX_EVENTS_PER_CHUNK >= 1 =>
      /\ \A k \in 1..Len(chunks[i]) :
           /\ Len(chunks[i][k].events) >= 1
           /\ Len(chunks[i][k].events) <= MAX_EVENTS_PER_CHUNK
           /\ (k < Len(chunks[i]) \/ pc[i] = "chunk") =>
                Len(chunks[i][k].events) = MAX_EVENTS_PER_CHUNK
      /\ AfterLoop(i) =>
           Len(chunks[i]) = CeilDiv(Len(allEvents[i]), MAX_EVENTS_PER_CHUNK)
      /\ pc[i] = "final" =>
           calls[i].summarizer
             = CeilDiv(Len(allEvents[i]), MAX_EVENTS_PER_CHUNK)
      /\ (/\ AfterLoop(i)
          /\ Len(allEvents[i]) = ScenarioEvents
          /\ MAX_EVENTS_PER_CHUNK = DEFAULT_MAX_EVENTS_PER_CHUNK) =>
           [k \in 1..Len(chunks[i]) |-> Len(chunks[i][k].events)]
             = <<DEFAULT_MAX_EVENTS_PER_CHUNK,
                 ScenarioEvents - DEFAULT_MAX_EVENTS_PER_CHUNK>>

C16_Witness ==
  \E i \in Inv :
    /\ pc[i] = "final"
    /\ Len(allEvents[i]) = ScenarioEvents
    /\ MAX_EVENTS_PER_CHUNK = DEFAULT_MAX_EVENTS_PER_CHUNK
    /\ Len(chunks[i]) = 2
    /\ calls[i].summarizer = 2

\* C17: with a MAX_EVENTS_PER_CHUNK below 1 no processProjectEvents call
\* enters the chunk loop: no chunk is summarized, no summarizer, consolidator
\* or Slack call is made and nothing is deleted.
C17_BadChunkSizeRejected ==
  \A i \in Inv :
    MAX_EVENTS_PER_CHUNK < 1 =>
      /\ pc[i] # "chunk"
      /\ chunks[i] = <<>>
      /\ calls[i] = NoCalls
      /\ NoDelete(i)

PastLoop(i) == chunks[i] # <<>> /\ pc[i] # "chunk"

\* the chunks of the loop whose generateEventSummary call threw
ThrownChunks(i) == {k \in 1..Len(chunks[i]) : chunks[i][k].outcome = "throw"}

\* C19: for a chunk size of at least 1, a flush that has left the chunk loop
\* has made one summarizer call for each of the ceil(L / n) chunks of the
\* batch, in chunk order, whatever the calls did, and the chunk error count
\* it holds and returns is the number of chunks whose call threw.
C19_ChunkFailureDoesNotAbort ==
  \A i \in Inv :
    MAX_EVENTS_PER_CHUNK >= 1 =>
      /\ chunkErrors[i] = Cardinality(ThrownChunks(i))
      /\ PastLoop(i) =>
           /\ Len(chunks[i])
                = CeilDiv(Len(allEvents[i]), MAX_EVENTS_PER_CHUNK)
           /\ \A k \in 1..Len(chunks[i]) :
                chunks[i][k].events =
                  SubSeq(allEvents[i], (k - 1) * MAX_EVENTS_PER_CHUNK + 1,
                         IF k * MAX_EVENTS_PER_CHUNK < Len(allEvents[i])
                         THEN k * MAX_EVENTS_PER_CHUNK
                         ELSE Len(allEvents[i]))
           /\ Returned(i) =>
                result[i].chunkErrors = Cardinality(ThrownChunks(i))

C19_Witness ==
  \E i \in Inv :
    /\ Returned(i)
    /\ Len(chunks[i]) = 3
    /\ chunks[i][1].outcome = "throw"
    /\ chunks[i][2].outcome = "text"
    /\ chunks[i][3].outcome = "throw"
    /\ result[i].action = "consolidated_summary_sent"
    /\ result[i].chunkErrors = 2

\* the call took the promotion path: it called generateEventSummary again
\* for the final summary instead of the consolidator
Promoted(i) ==
  finalSummaryMessage[i].from = "promotion" \/ calls[i].threw = "summarizer"

\* C20: a flush takes the promotion path only when its batch formed exactly
\* one chunk and that chunk was summarized without an error; a batch of two
\* or more chunks is never promoted.
C20_PromotionOnlyForSingleChunk ==
  \A i \in Inv :
    Promoted(i) =>
      /\ Len(chunks[i]) = 1
      /\ chunks[i][1].outcome = "text"
      /\ chunkErrors[i] = 0

\* C21: on the promotion path the delivered final summary is made by a
\* summarizer call over all the events the flush read, which are the events
\* it then deletes.
C21_PromotionCoversBatch ==
  \A i \in Inv :
    finalSummaryMessage[i].from = "promotion" =>
      /\ finalSummaryMessage[i].events = IdsOf(allEvents[i])
      /\ finalSummaryMessage[i].events = IdsOf(EventsToDelete(i))

\* the positions of the chunks whose call returned a text, in chunk order
RECURSIVE TextChunks(_, _)
TextChunks(cs, k) ==
  IF k > Len(cs) THEN <<>>
  ELSE IF cs[k].outcome = "text" THEN <<k>> \o TextChunks(cs, k + 1)
  ELSE TextChunks(cs, k + 1)

\* the flush has gone past its final-summary call
PastFinal(i) == PastLoop(i) /\ pc[i] # "final"

\* at least one chunk gave a partial text, and there is more than one
\* partial text or at least one chunk failed
NeedsConsolidation(i) ==
  /\ Len(partialSummaryTexts[i]) >= 1
  /\ Len(partialSummaryTexts[i]) > 1 \/ chunkErrors[i] >= 1

\* C22: when at least one chunk gave a partial text and there is more than
\* one partial text or at least one chunk error, the flush calls the
\* consolidator exactly once, with the texts of the summarized chunks in
\* chunk order, and makes no further summarizer call; when that call
\* returns, its result is the final message and exactly one postToSlack call
\* follows (a throw of it ends the flush without delivery).
C22_ConsolidatesOnceAndDelivers ==
  \A i \in Inv :
    (NeedsConsolidation(i) /\ PastFinal(i)) =>
      /\ calls[i].consolidator = 1
      /\ calls[i].summarizer = Len(chunks[i])
      /\ partialSummaryTexts[i] = TextChunks(chunks[i], 1)
      /\ IF calls[i].threw = "none"
         THEN /\ finalSummaryMessage[i].from = "consolidation"
              /\ finalSummaryMessage[i].texts = TextChunks(chunks[i], 1)
              /\ calls[i].slack = IF pc[i] = "post" THEN 0 ELSE 1
         ELSE /\ calls[i].threw = "consolidator"
              /\ calls[i].slack = 0

C22_Witness ==
  \E i \in Inv :
    /\ Returned(i)
    /\ Len(chunks[i]) = 3
    /\ chunks[i][1].outcome = "text"
    /\ chunks[i][2].outcome = "throw"
    /\ chunks[i][3].outcome = "text"
    /\ calls[i].consolidator = 1
    /\ calls[i].slack = 1
    /\ finalSummaryMessage[i].texts = <<1, 3>>
    /\ result[i].action = "consolidated_summary_sent"

\* C23: a scheduled check that finds no pending event for its project
\* returns no_events_to_process with event count 0, having made no
\* summarizer, consolidator or Slack call and no delete request, and having
\* removed nothing from the table.
C23_EmptyBatchNoAction ==
  \A i \in Inv :
    (isScheduledCheck[i] /\ pc[i] \notin {"idle", "get_all"}
       /\ Len(allEvents[i]) = 0) =>
      /\ Returned(i)
      /\ result[i].success
      /\ result[i].action = "no_events_to_process"
      /\ result[i].eventCount = 0
      /\ calls[i] = NoCalls
      /\ chunks[i] = <<>>
      /\ NoDelete(i)

C23_Witness ==
  \E i \in Inv :
    /\ Returned(i)
    /\ isScheduledCheck[i]
    /\ getSuccess[i]
    /\ projectName[i] = "redline"
    /\ store = {}
    /\ result[i].action = "no_events_to_process"
    /\ calls[i] = NoCalls

\* the flush delivered its summary and has returned from the delete step
Flushed(i) == Returned(i) /\ slackResponse[i] = "ok"

\* the events of the call whose BatchWrite failed
FailedBatchEvents(i) ==
  {e \in Range(allEvents[i]) :
     \E k \in 1..Len(batchResults[i]) :
       ~batchResults[i][k] /\ KeyOf(e) \in Range(deleteRequests[i][k])}

\* C24: a flush whose delivery succeeded returns consolidated_summary_sent
\* with success true also when BatchWrites of its delete step failed, and
\* the events of the failed BatchWrites were not removed: they are still in
\* the table for the next flush.
C24_SentDespiteFailedDelete ==
  \A i \in Inv :
    Flushed(i) =>
      /\ result[i].success
      /\ result[i].action = "consolidated_summary_sent"
      /\ \A e \in FailedBatchEvents(i) : e.id \notin victims[i] /\ e \in store

C24_Witness ==
  \E i \in Inv :
    /\ Flushed(i)
    /\ batchResults[i] = <<TRUE, FALSE, TRUE>>
    /\ result[i].success
    /\ Cardinality(FailedBatchEvents(i)) = BATCH_SIZE
    /\ store = FailedBatchEvents(i)

\* C25: every BatchWrite of batchDeleteEvents holds at most 25 delete
\* requests; for N events it issues ceil(N / 25) BatchWrites, which taken
\* together hold the key of each event exactly once, in the order of the
\* events.
C25_DeleteBatchesOf25 ==
  \A i \in Inv :
    /\ \A k \in 1..Len(deleteRequests[i]) :
         /\ Len(deleteRequests[i][k]) >= 1
         /\ Len(deleteRequests[i][k]) <= BATCH_SIZE
    /\ Flatten(deleteRequests[i]) = Prefix(ReadKeys(i), deleteI[i])
    /\ Flushed(i) =>
         /\ Len(deleteRequests[i]) = CeilDiv(Len(allEvents[i]), BATCH_SIZE)
         /\ Flatten(deleteRequests[i]) = ReadKeys(i)
         /\ \A a, b \in 1..Len(Flatten(deleteRequests[i])) :
              a # b => Flatten(deleteRequests[i])[a]
                         # Flatten(deleteRequests[i])[b]

C25_Witness ==
  \E i \in Inv :
    /\ Flushed(i)
    /\ Len(allEvents[i]) = 2 * BATCH_SIZE + 1
    /\ Len(deleteRequests[i]) = 3
    /\ Len(deleteRequests[i][2]) = BATCH_SIZE
    /\ Len(deleteRequests[i][3]) = 1

SweepsInOrder(i) ==
  /\ (pc[i] = "idle" /\ kind'[i] = "sweep") => projIdx'[i] = 1
  /\ (kind[i] = "sweep" /\ pc[i] = "return" /\ pc'[i] # "return") =>
       IF projIdx[i] < Len(projectNames)
       THEN kind'[i] = "sweep" /\ projIdx'[i] = projIdx[i] + 1
       ELSE kind'[i] = "none"

\* C27: in a scheduled sweep processProjectEvents is called, with
\* isScheduledCheck true, for each project of projectNames in turn: no
\* project is skipped and the sweep ends only after the call for the last.
C27_SweepCallsEveryProject ==
  [][\A i \in Inv : SweepsInOrder(i)]_vars

\* a flush attempt has returned a failure: every chunk failed, or the final
\* summary or its delivery failed
FailedAttempt(i) ==
  /\ Returned(i)
  /\ result[i].action \in {"all_chunks_failed_to_summarize",
                           "final_summary_processing_failed"}

\* the ids of the events that are pending in the first state
PendingIds == (1 - MaxEvents)..0

\* a failed attempt has deleted nothing and the events it read are in the
\* table; an attempt that enters the chunk loop has read every pending event
\* of its project and carries nothing over from an earlier attempt
RetriesFromScratch ==
  \A i \in Inv :
    /\ FailedAttempt(i) => NoDelete(i)
    /\ (pc[i] = "chunk" /\ loopI[i] = 0) =>
         /\ IdsOf(allEvents[i]) \subseteq PendingIds
         /\ chunks[i] = <<>>
         /\ partialSummaryTexts[i] = <<>>
         /\ chunkErrors[i] = 0
         /\ calls[i] = NoCalls
         /\ deleteRequests[i] = <<>>

\* an event that a failed attempt has read leaves the table only in the
\* delete step of a flush whose Slack post succeeded
KeptForRetry ==
  \A x \in store \ store' :
    (\E i \in Inv : FailedAttempt(i) /\ x.id \in IdsOf(allEvents[i]))
      => (\E j \in Inv : slackResponse[j] = "ok" /\ x.id \in victims'[j])

\* C28: a failed flush attempt leaves the pending events as they were; a
\* later sweep attempts the flush again from scratch over the pending batch;
\* and when the external calls succeed again and again, every event that a
\* failed attempt read later leaves the table, which only the delete step of
\* a flush that delivered a summary makes it do.
C28_FailedFlushIsRetried ==
  /\ []RetriesFromScratch
  /\ [][KeptForRetry]_vars
  /\ \A i \in Inv : \A id \in PendingIds :
       (FailedAttempt(i) /\ id \in IdsOf(allEvents[i]))
         ~> (\A x \in store : x.id # id)

\* an item leaves the table only in the delete step of a flush whose Slack
\* post succeeded
RemovedByDeliveredFlush ==
  \A x \in store \ store' :
    \E j \in Inv : slackResponse[j] = "ok" /\ x.id \in victims'[j]

\* C29: a stored event leaves the table only through the delete step of a
\* flush that delivered a summary; nothing else, the ttl attribute that
\* storeEvent writes on the item included, removes an event that has not
\* been flushed.
C29_LeavesOnlyByDeliveredFlush == [][RemovedByDeliveredFlush]_vars

\* the ids of the events that storeEvent has stored
StoredIds == 1..(nextId - 1)

\* C30: every event that storeEvent has stored stays in the pending batch of
\* its project while no flush has deleted it: the store of a later event of
\* the same project, one whose invocation read the clock in the same
\* millisecond included, neither replaces nor removes it. (No invocation of
\* the webhook path flushes, so here every stored event is unflushed.)
C30_StoredEventsStayPending ==
  \A id \in StoredIds :
    \E x \in store : x.id = id /\ x.projectName \in EventProjects

\* the success flag that batchDeleteEvents returned (dynamoUtils.mjs:171)
RoundTripDeleteSuccess ==
  \A k \in 1..Len(roundTrip.results) : roundTrip.results[k]

\* C31: with nothing else writing the table, when batchDeleteEvents was
\* called with everything getAllProjectEvents returned for a project and
\* reported success, the next getAllProjectEvents for the project returns
\* no events.
C31_DeleteThenReadIsEmpty ==
  (/\ roundTrip.pc = "verified"
   /\ roundTrip.getSuccess
   /\ RoundTripDeleteSuccess
   /\ roundTrip.verifySuccess)
    => roundTrip.verify = <<>>

\* a GitHub workflow failure: the run, the job or the check of the event
\* concluded with failure
GitHubWorkflowFailure(call) ==
  LET body == IF call.event.hasBody THEN call.event.body ELSE call.event.own
  IN  /\ call.source = "github"
      /\ "failure" \in {body.workflow_run, body.workflow_job, body.check_run}

\* C32: an addEventToBatch call with a GitHub workflow-failure event returns
\* shouldSendImmediately = true with that event alone, not batchComplete,
\* and has sent no Get, Put or Delete to the table: it neither read nor
\* wrote the stored batch of the channel.
C32_WorkflowFailureBypassesBatch ==
  \A a \in Adders :
    (adder[a].pc = "done" /\ GitHubWorkflowFailure(adder[a])) =>
      /\ adder[a].shouldSendImmediately
      /\ ~adder[a].batchComplete
      /\ adder[a].events = <<adder[a].ev>>
      /\ adder[a].sends = 0

\* a check_run failure returned while the channel has a stored batch of
\* three earlier events
C32_Witness ==
  \E a \in Adders :
    /\ adder[a].pc = "done"
    /\ adder[a].source = "github"
    /\ adder[a].event.hasBody
    /\ adder[a].event.body.check_run = "failure"
    /\ batchTable.defined
    /\ Len(batchTable.events) = 3
    /\ adder[a].sends = 0

\* the PutCommand of the call stored the batch with the event added: the
\* call returned from line 95-104, or its third send, the delete, threw
Added(call) ==
  /\ call.pc = "done"
  /\ call.sends = 3 \/ (call.sends = 2 /\ ~call.shouldSendImmediately)

\* no call is between its first send and its return
Quiescent == \A a \in Adders : adder[a].pc \in {"idle", "done"}

\* C33: a call that added a non-failure event returns batchComplete = true
\* exactly when the batch with the event has MAX_BATCH_SIZE events, and then
\* returns all the events of the batch and has cleared the stored batch;
\* between calls the stored batch holds fewer than MAX_BATCH_SIZE events.
C33_BatchCompleteAtLimit ==
  /\ Added(adder[1]) =>
       /\ adder[1].batchComplete
            <=> (Len(adder[1].existingBatch) = MAX_BATCH_SIZE)
       /\ adder[1].batchComplete =>
            /\ adder[1].events = adder[1].existingBatch
            /\ batchTable = NoItem
  /\ Quiescent => Len(batchTable.events) < MAX_BATCH_SIZE

\* the event of caller a is in the stored batch, or in the events returned
\* by a call with batchComplete or shouldSendImmediately
AccountedFor(a) ==
  \/ adder[a].ev \in Range(batchTable.events)
  \/ \E b \in Adders :
       /\ adder[b].pc = "done"
       /\ adder[b].batchComplete \/ adder[b].shouldSendImmediately
       /\ adder[a].ev \in Range(adder[b].events)

\* C39: when two addEventToBatch calls for the same channel have run at the
\* same time and both have returned, the event of each is in the stored
\* batch or in the events returned by a call with batchComplete or
\* shouldSendImmediately.
C39_ConcurrentAddsKeepBothEvents ==
  (\A a \in Adders : adder[a].pc = "done") =>
    \A a \in Adders : AccountedFor(a)

\* a scheduled sweep calls processProjectEvents for the project: it is in
\* projectNames and the channel lookup finds a key for it
SweepFlushes(project) ==
  \E k \in 1..Len(projectNames) :
    projectNames[k] = project /\ ChannelKeyFor(projectNames[k]) # ""

\* C34: every event that the webhook path has stored is stored under a
\* project that the scheduled sweep iterates and finds a channel for, so
\* that a flush of a sweep reads it.
C34_StoredEventsAreSwept ==
  \A x \in store : SweepFlushes(x.projectName)

\* C35: in a flush that has left the chunk loop, the number of partial
\* summary texts collected plus the chunk error count is the number of
\* chunks that the loop formed.
C35_PartialsPlusErrorsAreChunks ==
  \A i \in Inv :
    PastLoop(i) =>
      Len(partialSummaryTexts[i]) + chunkErrors[i] = Len(chunks[i])

\* C36: processProjectEvents returns the successful no_events_to_process
\* outcome only when the query of the table succeeded and returned no event.
C36_NoEventsOnlyAfterSuccessfulRead ==
  \A i \in Inv :
    (Returned(i) /\ result[i].action = "no_events_to_process") =>
      getSuccess[i] /\ allEvents[i] = <<>>

\* C37: a processProjectEvents call makes finitely many summarizer calls
\* before it returns, whatever integer MAX_EVENTS_PER_CHUNK is: never more
\* than one for each event it read, and one more for a promoted summary.
C37_SummarizerCallsBounded ==
  \A i \in Inv : calls[i].summarizer <= Len(allEvents[i]) + 1


\* the projects of the list that have a channel, in the order of the list
SweptProjects ==
  SelectSeq(projectNames, LAMBDA p : ChannelKeyFor(p) # "")

\* the sweep of invocation i has a result for every project with a channel
\* before the one it is processing, and no other
SweepOnSchedule(i) ==
  /\ Len(results[i]) < Len(SweptProjects)
  /\ \A k \in 1..Len(results[i]) :
       results[i][k].projectName = SweptProjects[k]
  /\ projectName[i] = SweptProjects[Len(results[i]) + 1]

\* a sweep ends only when the last project with a channel has returned
EndsAfterLastProject ==
  \A i \in Inv :
    (kind[i] = "sweep" /\ kind'[i] # "sweep")
      => projectName[i] = SweptProjects[Len(SweptProjects)]

\* C38: within one scheduled sweep a failure outcome of one project does
\* not keep the remaining projects of the list from being processed: while
\* the sweep runs, every project with a channel before the current one has
\* its result recorded, failed or not, the current one is the next of the
\* list, and the sweep ends only after the last project has returned
C38_FailureDoesNotStopSweep ==
  /\ [](\A i \in Inv : kind[i] = "sweep" => SweepOnSchedule(i))
  /\ [][EndsAfterLastProject]_vars

\* the first project of a sweep has failed and the last one has been
\* processed to its return in the same sweep
C38_Witness ==
  \E i \in Inv :
    /\ kind[i] = "sweep"
    /\ pc[i] = "return"
    /\ projectName[i] = SweptProjects[Len(SweptProjects)]
    /\ Len(results[i]) = Len(SweptProjects) - 1
    /\ ~results[i][1].success
    /\ result[i].action = "consolidated_summary_sent"

====
